---- MODULE Spec2Model ----
(***************************************************************************)
(* Model of Unidad_2/work/batch_generator.py: the synthetic batch          *)
(* generator.  One invocation of the script writes a CSV file with         *)
(* csv.writer, re-reads and rewrites it with polars to add the unique_id   *)
(* column (add_id) and, in "next" runs, re-reads and rewrites it once more *)
(* to overwrite accessed_at (update_datetime).                             *)
(*                                                                         *)
(* The file on disk is text.  It is modelled as a table of text cells,     *)
(* each cell a sequence of one-character strings; a polars DataFrame is a  *)
(* table of typed values.  read_csv infers a type per column and parses    *)
(* the cells, write_csv formats the values back to text.                   *)
(*                                                                         *)
(* A file can hold 300372 rows.  file.height is the exact row count;       *)
(* file.rows holds the first Min(height, MaxRows) rows and file.rest       *)
(* summarises the phone cells of the rows that are not held (see RestsFor). *)
(***************************************************************************)
EXTENDS Integers, Sequences, FiniteSets, TLC

VARIABLES
    pc,         \* position in the __main__ block
    now,        \* the system clock: [day, sec, us]
    ticks,      \* how often the clock advanced during the run
    dirExists,  \* whether the directory data/ exists
    file,       \* the file at output_file
    records,    \* __main__: records
    run_type,   \* __main__: run_type
    log,        \* the messages given to logging.info, in order
    started,    \* clock reading of line 129-131 (the invocation time)
    today,      \* the date read by line 136
    clockRead,  \* datetime.now() as read by line 119, before truncation
    prev,       \* the file as it stood when the most recent step began
    opens,      \* how often each step opened the file: [read, write]
    failed      \* the operation that raised, or "none"

vars == <<pc, now, ticks, dirExists, file, records, run_type, log, started,
          today, clockRead, prev, opens, failed>>

----------------------------------------------------------------------------
(* Bounds of the model *)

MaxRows == 2     \* rows of a file whose cells are held in file.rows
MaxTicks == 2    \* clock advances during one run

(* Program constants *)

FirstDate == 739516          \* date(2025, 9, 22).toordinal()
FirstRecords == 300372
NextMaxRecords == 1101
InferSchemaLength == 100     \* polars read_csv default infer_schema_length
SecondsPerDay == 86400
MicrosPerSecond == 1000000
TickMicros == MicrosPerSecond \div 2   \* the clock advances by half seconds

Min(a, b) == IF a < b THEN a ELSE b

----------------------------------------------------------------------------
(* Text *)

Digits == <<"0", "1", "2", "3", "4", "5", "6", "7", "8", "9">>
Uppers == <<"A", "B", "C", "D", "E", "F", "G", "H", "I", "J", "K", "L", "M",
            "N", "O", "P", "Q", "R", "S", "T", "U", "V", "W", "X", "Y", "Z">>
Lowers == <<"a", "b", "c", "d", "e", "f", "g", "h", "i", "j", "k", "l", "m",
            "n", "o", "p", "q", "r", "s", "t", "u", "v", "w", "x", "y", "z">>

IsDigit(c) == \E i \in 1..10 : Digits[i] = c
DigitVal(c) == (CHOOSE i \in 1..10 : Digits[i] = c) - 1

\* str.lower(), one character
LowerChar(c) ==
    IF \E i \in 1..26 : Uppers[i] = c
    THEN Lowers[CHOOSE i \in 1..26 : Uppers[i] = c]
    ELSE c

\* str.lower()
RECURSIVE StrLower(_)
StrLower(s) ==
    IF s = <<>> THEN <<>> ELSE <<LowerChar(Head(s))>> \o StrLower(Tail(s))

\* str.replace(old, new) for a one-character old
RECURSIVE StrReplace(_, _, _)
StrReplace(s, old, new) ==
    IF s = <<>> THEN <<>>
    ELSE (IF Head(s) = old THEN new ELSE <<Head(s)>>)
         \o StrReplace(Tail(s), old, new)

\* str(int) for n >= 0
RECURSIVE FormatInt(_)
FormatInt(n) ==
    IF n < 10 THEN <<Digits[n + 1]>>
    ELSE FormatInt(n \div 10) \o <<Digits[(n % 10) + 1]>>

\* n as w digits, zero padded
RECURSIVE Pad(_, _)
Pad(n, w) ==
    IF w = 0 THEN <<>> ELSE Pad(n \div 10, w - 1) \o <<Digits[(n % 10) + 1]>>

\* the value of a sequence of digits: leading zeros do not count
RECURSIVE DigitsValue(_)
DigitsValue(s) ==
    IF s = <<>> THEN 0
    ELSE 10 * DigitsValue(SubSeq(s, 1, Len(s) - 1)) + DigitVal(s[Len(s)])

AllDigits(s) == s # <<>> /\ \A i \in 1..Len(s) : IsDigit(s[i])

----------------------------------------------------------------------------
(* Dates and times: [day |-> ordinal, sec |-> second of the day, us] *)

\* str(date): the calendar date, written here as its ordinal
DateText(d) == FormatInt(d)

\* str(datetime): "YYYY-MM-DD HH:MM:SS", with ".ffffff" when us # 0
PyDatetimeText(t) ==
    DateText(t.day) \o <<" ">> \o Pad(t.sec, 5)
    \o (IF t.us = 0 THEN <<>> ELSE <<".">> \o Pad(t.us, 6))

\* polars write_csv of a Datetime("us") value: "YYYY-MM-DDTHH:MM:SS.ffffff"
PolarsDatetimeText(t) ==
    DateText(t.day) \o <<"T">> \o Pad(t.sec, 5) \o <<".">> \o Pad(t.us, 6)

\* datetime.replace(microsecond=0)
ReplaceMicrosecondZero(t) == [t EXCEPT !.us = 0]

\* datetime - timedelta(days=n)
MinusDays(t, n) == [t EXCEPT !.day = t.day - n]

\* the clock one TickMicros later
Advance(t) ==
    LET u == t.us + TickMicros
        s == t.sec + (u \div MicrosPerSecond)
    IN  [day |-> t.day + (s \div SecondsPerDay),
         sec |-> s % SecondsPerDay,
         us  |-> u % MicrosPerSecond]

----------------------------------------------------------------------------
(* The localized fake-data source and the random-number source *)

\* random.randint(lo, hi): the values next to lo, and hi itself
RandInt(lo, hi) == {n \in lo..hi : n <= lo + MaxRows \/ n = hi}

\* What one call of generate_record draws from Faker("es_MX") and random.
\* ssn() of es_MX is a string of digits that may start with 0; phone_number()
\* has formats made of digits only ("0##########") and formats with signs.
Draws ==
    { [name |-> <<"A", "n", " ", "B", "o">>, domain |-> <<"x", ".", "m">>,
       ssn |-> <<"0", "7", "1">>, birth |-> FirstDate - 9000,
       address |-> <<"C", " ", "1", "\n", "D", "F">>,
       phone |-> <<"0", "1", "5">>, mac |-> <<"a", "0", ":", "1", "f">>,
       ip |-> <<"1", "0", ".", "2">>, iban |-> <<"M", "X", "4", "2">>,
       ago |-> [days |-> 1, sec |-> 0],
       session |-> 0, down |-> 1000, up |-> 0, traffic |-> 2000000],
      [name |-> <<"L", "i", "c", ".", " ", "U", " ", "v">>,
       domain |-> <<"y", ".", "m">>,
       ssn |-> <<"3", "5", "2">>, birth |-> FirstDate - 20000,
       address |-> <<"G", "\n", "H">>,
       phone |-> <<"5", "-", "1", "2">>, mac |-> <<"0", "b", ":", "2", "2">>,
       ip |-> <<"9", ".", "9">>, iban |-> <<"M", "X", "0", "7">>,
       ago |-> [days |-> 300, sec |-> 17],
       session |-> 36000, down |-> 0, up |-> 800, traffic |-> 0] }

\* str(uuid.uuid4()): hexadecimal digits and hyphens
Uuids == { <<"a", "1", "-", "4", "b">>, <<"7", "0", "-", "4", "c">> }

----------------------------------------------------------------------------
(* Files *)

headers ==
    <<"person_name", "user_name", "email", "personal_number", "birth_date",
      "address", "phone", "mac_address", "ip_address", "iban", "accessed_at",
      "session_duration", "download_speed", "upload_speed",
      "consumed_traffic">>

\* What is known of the phone cells of the rows that file.rows does not hold:
\*   "none"   there are no such rows
\*   "int"    all of them are integer text
\*   "early"  one of the first InferSchemaLength rows is not integer text
\*   "late"   those among the first InferSchemaLength rows are integer text,
\*            a later one is not
RestsFor(height) ==
    IF height <= MaxRows THEN {"none"}
    ELSE IF height <= InferSchemaLength THEN {"int", "early"}
    ELSE {"int", "early", "late"}

Absent == [exists |-> FALSE, header |-> <<>>, rows |-> <<>>, height |-> 0,
           rest |-> "none"]

\* a file that was opened for writing and holds nothing yet
Truncated == [Absent EXCEPT !.exists = TRUE]

\* position of a column name in a header, 0 when it is not there
ColumnIndex(names, name) ==
    IF \E j \in 1..Len(names) : names[j] = name
    THEN CHOOSE j \in 1..Len(names) : names[j] = name
    ELSE 0

\* what a write that raised part-way may leave of the file f it was writing
PartialFiles(f) ==
    {Truncated} \cup
    { [f EXCEPT !.rows = SubSeq(f.rows, 1, k), !.height = k, !.rest = "none"] :
        k \in {n \in 0..Len(f.rows) : n < f.height} }

----------------------------------------------------------------------------
(* create_directories_if_not_exist *)

\* whether the call has to create the directory
create_directories_needed(exists) == ~exists

----------------------------------------------------------------------------
(* generate_record *)

\* generate_record with .lower() left out
generate_record_keeps_case(fake, clock) ==
    LET user_name == StrReplace(fake.name, " ", <<>>)
    IN  <<fake.name, user_name, user_name \o <<"@">> \o fake.domain, fake.ssn,
          fake.birth, StrReplace(fake.address, "\n", <<",", " ">>), fake.phone,
          fake.mac, fake.ip, fake.iban,
          [day |-> clock.day - fake.ago.days, sec |-> fake.ago.sec, us |-> 0],
          fake.session, fake.down, fake.up, fake.traffic>>

generate_record(fake, clock) ==
    LET person_name == fake.name
        user_name == StrLower(StrReplace(person_name, " ", <<>>))
        email == user_name \o <<"@">> \o fake.domain
        personal_number == fake.ssn
        birth_date == fake.birth
        address == StrReplace(fake.address, "\n", <<",", " ">>)
        phone_number == fake.phone
        mac_address == fake.mac
        ip_address == fake.ip
        iban == fake.iban
        accessed_at == [day |-> clock.day - fake.ago.days,
                        sec |-> fake.ago.sec, us |-> 0]
        session_duration == fake.session
        download_speed == fake.down
        upload_speed == fake.up
        consumed_traffic == fake.traffic
    IN  <<person_name, user_name, email, personal_number, birth_date,
          address, phone_number, mac_address, ip_address, iban, accessed_at,
          session_duration, download_speed, upload_speed, consumed_traffic>>

\* csv.writer.writerow: every field through str()
CsvRow(rec) ==
    <<rec[1], rec[2], rec[3], rec[4], DateText(rec[5]), rec[6], rec[7],
      rec[8], rec[9], rec[10], PyDatetimeText(rec[11]), FormatInt(rec[12]),
      FormatInt(rec[13]), FormatInt(rec[14]), FormatInt(rec[15])>>

\* write_to_csv writing the header row only when there are records
WrittenFile_header_with_rows(fakes, rows, rest, clock) ==
    [exists |-> TRUE,
     header |-> IF rows = 0 THEN <<>> ELSE headers,
     rows   |-> [i \in 1..Len(fakes) |-> CsvRow(generate_record(fakes[i], clock))],
     height |-> rows,
     rest   |-> rest]

\* the file write_to_csv leaves: the header row, then one row per record
WrittenFile(fakes, rows, rest, clock) ==
    [exists |-> TRUE,
     header |-> headers,
     rows   |-> [i \in 1..Len(fakes) |-> CsvRow(generate_record(fakes[i], clock))],
     height |-> rows,
     rest   |-> rest]

----------------------------------------------------------------------------
(* polars: read_csv, with_columns, write_csv *)

\* the text polars takes for an integer: an optional sign, then digits
IsIntegerText(cell) ==
    /\ cell # <<>>
    /\ AllDigits(IF Head(cell) = "-" THEN Tail(cell) ELSE cell)

\* the Int64 value of integer text
IntegerValue(cell) ==
    IF Head(cell) = "-" THEN 0 - DigitsValue(Tail(cell)) ELSE DigitsValue(cell)

\* the text write_csv gives an Int64 value
IntegerText(v) == IF v < 0 THEN <<"-">> \o FormatInt(0 - v) ELSE FormatInt(v)

\* Schema inference of read_csv for column j: Int64 when every cell of the
\* first InferSchemaLength rows is integer text, String otherwise (and for a
\* column without rows).  Of the rows file.rows does not hold, only phone
\* cells can go either way: file.rest says which.
InferDtype(f, j) ==
    IF /\ f.height > 0
       /\ \A i \in 1..Min(Len(f.rows), InferSchemaLength) :
              IsIntegerText(f.rows[i][j])
       /\ (f.header[j] = "phone" => f.rest \in {"none", "int", "late"})
    THEN "i64"
    ELSE "str"

\* read_csv raises when the file is missing or empty, and when a cell after
\* the rows the schema was inferred from does not parse as the column's type
ReadRaises(f) ==
    \/ ~f.exists
    \/ f.header = <<>>
    \/ \E j \in 1..Len(f.header) :
           f.header[j] = "phone" /\ InferDtype(f, j) = "i64" /\ f.rest = "late"

ParseCell(dtype, cell) == IF dtype = "i64" THEN IntegerValue(cell) ELSE cell

FormatValue(dtype, v) ==
    CASE dtype = "i64" -> IntegerText(v)
      [] dtype = "datetime" -> PolarsDatetimeText(v)
      [] OTHER -> v

\* pl.read_csv(file_name): a DataFrame
read_csv(f) ==
    LET dtypes == [j \in 1..Len(f.header) |-> InferDtype(f, j)]
    IN  [columns |-> f.header,
         dtypes  |-> dtypes,
         data    |-> [i \in 1..Len(f.rows) |->
                        [j \in 1..Len(f.header) |->
                            ParseCell(dtypes[j], f.rows[i][j])]],
         height  |-> f.height,
         rest    |-> f.rest]

\* df.with_columns(<column name of type dtype holding values>): a column of
\* that name is replaced where it stands, a new name is appended
with_columns(df, name, dtype, values) ==
    LET at == ColumnIndex(df.columns, name)
    IN  IF at = 0
        THEN [df EXCEPT !.columns = Append(@, name),
                        !.dtypes = Append(@, dtype),
                        !.data = [i \in 1..Len(@) |-> Append(@[i], values[i])]]
        ELSE [df EXCEPT !.dtypes[at] = dtype,
                        !.data = [i \in 1..Len(@) |->
                                     [@[i] EXCEPT ![at] = values[i]]]]

\* pl.lit(v) in with_columns: v for every row
Lit(df, v) == [i \in 1..Len(df.data) |-> v]

\* df.write_csv(file_name): the file it leaves
write_csv(df) ==
    [exists |-> TRUE,
     header |-> df.columns,
     rows   |-> [i \in 1..Len(df.data) |->
                   [j \in 1..Len(df.columns) |->
                       FormatValue(df.dtypes[j], df.data[i][j])]],
     height |-> df.height,
     rest   |-> df.rest]

----------------------------------------------------------------------------
(* add_id and update_datetime, as functions of the file *)

\* add_id taking the first data row for a second header row
add_id_file_skips_row(f, uuid_list) ==
    LET df == with_columns(read_csv(f), "unique_id", "str", uuid_list)
    IN  write_csv([df EXCEPT !.data = IF @ = <<>> THEN @ ELSE Tail(@),
                             !.height = IF @ = 0 THEN 0 ELSE @ - 1])

\* the file add_id leaves when uuid4 returns uuid_list[i] for row i
add_id_file(f, uuid_list) ==
    write_csv(with_columns(read_csv(f), "unique_id", "str", uuid_list))

\* update_datetime without .replace(microsecond=0)
yesterday_time_untruncated(clock) == MinusDays(clock, 1)

\* the timestamp update_datetime writes when datetime.now() returns clock
yesterday_time(clock) == MinusDays(ReplaceMicrosecondZero(clock), 1)

\* update_datetime without the timedelta(days=1)
update_datetime_file_today(f, clock) ==
    LET df == read_csv(f)
    IN  write_csv(with_columns(df, "accessed_at", "datetime",
                               Lit(df, ReplaceMicrosecondZero(clock))))

\* the file the "next" branch of update_datetime leaves
update_datetime_file(f, clock) ==
    LET df == read_csv(f)
    IN  write_csv(with_columns(df, "accessed_at", "datetime",
                               Lit(df, yesterday_time(clock))))

----------------------------------------------------------------------------
(* The __main__ block *)

Msg(m, a) == [msg |-> m, arg |-> a]

NoTime == [day |-> 0, sec |-> 0, us |-> 0]
NoOpens == [read |-> 0, write |-> 0]

\* __main__ calling update_datetime before add_id
StepAfter_stamp_first(p) ==
    CASE p = "start" -> "decide"
      [] p = "decide" -> "write"
      [] p = "write" -> "stamp"
      [] p = "stamp" -> "tag"
      [] p = "tag" -> "finish"
      [] OTHER -> "done"

\* the order of the statements of __main__
StepAfter(p) ==
    CASE p = "start" -> "decide"
      [] p = "decide" -> "write"
      [] p = "write" -> "tag"
      [] p = "tag" -> "stamp"
      [] p = "stamp" -> "finish"
      [] OTHER -> "done"

\* an exception that is caught and passed over: the run goes on
Raise_swallowed(op) == pc' = StepAfter(pc) /\ failed' = op

\* an exception nothing catches: the interpreter exits
Raise(op) == pc' = "aborted" /\ failed' = op

\* the decision with randint(0, 1_102)
RunDecision_one_more(day) ==
    IF day = FirstDate
    THEN {[records |-> n, run_type |-> "first"] :
             n \in RandInt(FirstRecords, FirstRecords)}
    ELSE {[records |-> n, run_type |-> "next"] :
             n \in RandInt(0, NextMaxRecords + 1)}

\* lines 136-141: the row count and the run mode for the date read
RunDecision(day) ==
    IF day = FirstDate
    THEN {[records |-> n, run_type |-> "first"] :
             n \in RandInt(FirstRecords, FirstRecords)}
    ELSE {[records |-> n, run_type |-> "next"] :
             n \in RandInt(0, NextMaxRecords)}

\* update_datetime rewriting the file in every run
update_needed_always(run) == run \in {"first", "next"}

\* line 118: whether update_datetime rewrites the file
update_needed(run) == run = "next"

\* A file an earlier, complete run of the same day left at output_file.
PriorFile(clock) ==
    LET fake == CHOOSE d \in Draws : ~IsIntegerText(d.phone)
        uuid == CHOOSE u \in Uuids : Head(u) = "7"
        early == [clock EXCEPT !.sec = 0, !.us = 0]
    IN  IF clock.day = FirstDate
        THEN add_id_file(WrittenFile([i \in 1..MaxRows |-> fake], FirstRecords,
                                     "early", early),
                         [i \in 1..MaxRows |-> uuid])
        ELSE update_datetime_file(
                 add_id_file(WrittenFile(<<fake>>, 1, "none", early), <<uuid>>),
                 early)

Clocks ==
    { [day |-> d, sec |-> t.sec, us |-> t.us] :
        d \in {FirstDate - 1, FirstDate},
        t \in { [sec |-> SecondsPerDay \div 2, us |-> 0],
                [sec |-> SecondsPerDay - 1, us |-> TickMicros] } }

Init ==
    /\ pc = "start"
    /\ now \in Clocks
    /\ ticks = 0
    /\ dirExists \in BOOLEAN
    /\ file \in (IF dirExists THEN {Absent, PriorFile(now)} ELSE {Absent})
    /\ records = 0
    /\ run_type = "unset"
    /\ log = <<>>
    /\ started = NoTime
    /\ today = 0
    /\ clockRead = NoTime
    /\ prev = file
    /\ opens = NoOpens
    /\ failed = "none"

\* the clock advances while the program runs
Tick ==
    /\ pc \notin {"done", "aborted"}
    /\ ticks < MaxTicks
    /\ now' = Advance(now)
    /\ ticks' = ticks + 1
    /\ UNCHANGED <<pc, dirExists, file, records, run_type, log, started, today,
                   clockRead, prev, opens, failed>>

\* lines 129-134
MainStart ==
    /\ pc = "start"
    /\ started' = now
    /\ \/ /\ dirExists' = TRUE
          /\ log' = log \o <<Msg("Started", now.day)>>
                        \o (IF create_directories_needed(dirExists)
                            THEN <<Msg("Created directory", 0)>> ELSE <<>>)
          /\ pc' = StepAfter(pc)
          /\ UNCHANGED failed
       \/ /\ create_directories_needed(dirExists)
          /\ log' = log \o <<Msg("Started", now.day)>>
          /\ Raise("makedirs")
          /\ UNCHANGED dirExists
    /\ UNCHANGED <<now, ticks, file, records, run_type, today, clockRead, prev,
                   opens>>

\* lines 136-141
Decide ==
    /\ pc = "decide"
    /\ today' = now.day
    /\ \E d \in RunDecision(now.day) :
          /\ records' = d.records
          /\ run_type' = d.run_type
    /\ pc' = StepAfter(pc)
    /\ UNCHANGED <<now, ticks, dirExists, file, log, started, clockRead, prev,
                   opens, failed>>

\* line 143: write_to_csv(output_file, records)
WriteToCsv ==
    /\ pc = "write"
    /\ prev' = file
    /\ LET log1 == log \o (IF create_directories_needed(dirExists)
                           THEN <<Msg("Created directory", 0)>> ELSE <<>>)
                       \o <<Msg("Created synthetic data", 0)>>
       IN  \/ \E fakes \in [1..Min(records, MaxRows) -> Draws],
                 rest \in RestsFor(records) :
                 /\ file' = WrittenFile(fakes, records, rest, now)
                 /\ log' = log1 \o <<Msg("Written", records)>>
                 /\ opens' = [read |-> 0, write |-> 1]
                 /\ pc' = StepAfter(pc)
                 /\ UNCHANGED failed
           \/ /\ file' = file
              /\ log' = log1
              /\ opens' = NoOpens
              /\ Raise("open")
           \/ \E fakes \in [1..Min(records, MaxRows) -> Draws],
                 rest \in RestsFor(records) :
                 /\ file' \in PartialFiles(WrittenFile(fakes, records, rest, now))
                 /\ log' = log1
                 /\ opens' = [read |-> 0, write |-> 1]
                 /\ Raise("write")
    /\ dirExists' = TRUE
    /\ UNCHANGED <<now, ticks, records, run_type, started, today, clockRead>>

\* line 145: add_id(output_file)
AddId ==
    /\ pc = "tag"
    /\ prev' = file
    /\ \/ /\ ~ReadRaises(file)
          /\ \E uuid_list \in [1..Len(file.rows) -> Uuids] :
                file' = add_id_file(file, uuid_list)
          /\ log' = log \o <<Msg("Added UUID", 0)>>
          /\ opens' = [read |-> 1, write |-> 1]
          /\ pc' = StepAfter(pc)
          /\ UNCHANGED failed
       \/ /\ file' = file
          /\ opens' = [read |-> 1, write |-> 0]
          /\ Raise("read")
          /\ UNCHANGED log
       \/ /\ ~ReadRaises(file)
          /\ \E uuid_list \in [1..Len(file.rows) -> Uuids] :
                file' \in PartialFiles(add_id_file(file, uuid_list))
          /\ opens' = [read |-> 1, write |-> 1]
          /\ Raise("write")
          /\ UNCHANGED log
    /\ UNCHANGED <<now, ticks, dirExists, records, run_type, started, today,
                   clockRead>>

\* line 147: update_datetime(output_file, run_type)
UpdateDatetime ==
    /\ pc = "stamp"
    /\ prev' = file
    /\ IF update_needed(run_type)
       THEN /\ clockRead' = now
            /\ \/ /\ ~ReadRaises(file)
                  /\ file' = update_datetime_file(file, now)
                  /\ log' = log \o <<Msg("Updated accessed timestamp", 0)>>
                  /\ opens' = [read |-> 1, write |-> 1]
                  /\ pc' = StepAfter(pc)
                  /\ UNCHANGED failed
               \/ /\ file' = file
                  /\ opens' = [read |-> 1, write |-> 0]
                  /\ Raise("read")
                  /\ UNCHANGED log
               \/ /\ ~ReadRaises(file)
                  /\ file' \in PartialFiles(update_datetime_file(file, now))
                  /\ opens' = [read |-> 1, write |-> 1]
                  /\ Raise("write")
                  /\ UNCHANGED log
       ELSE /\ log' = log \o <<Msg("No timestamp update needed", 0)>>
            /\ opens' = NoOpens
            /\ pc' = StepAfter(pc)
            /\ UNCHANGED <<file, clockRead, failed>>
    /\ UNCHANGED <<now, ticks, dirExists, records, run_type, started, today>>

\* line 149
Finish ==
    /\ pc = "finish"
    /\ log' = log \o <<Msg("Finished", now.day)>>
    /\ pc' = StepAfter(pc)
    /\ UNCHANGED <<now, ticks, dirExists, file, records, run_type, started,
                   today, clockRead, prev, opens, failed>>

Next ==
    \/ Tick
    \/ MainStart
    \/ Decide
    \/ WriteToCsv
    \/ AddId
    \/ UpdateDatetime
    \/ Finish

Spec == Init /\ [][Next]_vars

----------------------------------------------------------------------------
(* Properties *)

Cell(f, i, name) == f.rows[i][ColumnIndex(f.header, name)]

Logged(m) == \E k \in 1..Len(log) : log[k].msg = m
TimesLogged(m) == Cardinality({k \in 1..Len(log) : log[k].msg = m})

\* the messages of the three file steps, in the order they were logged
PassMessages ==
    LET IsPass(e) == e.msg \in {"Written", "Added UUID",
                                "Updated accessed timestamp",
                                "No timestamp update needed"}
        sel == SelectSeq(log, IsPass)
    IN  [k \in 1..Len(sel) |-> sel[k].msg]

IsPrefix(a, b) == Len(a) <= Len(b) /\ a = SubSeq(b, 1, Len(a))

\* a is not later than b
TimeLeq(a, b) ==
    \/ a.day < b.day
    \/ a.day = b.day /\ a.sec < b.sec
    \/ a.day = b.day /\ a.sec = b.sec /\ a.us <= b.us

\* every cell of f outside column name is the cell prev held at that place
OthersKept(f, old, name) ==
    /\ Len(f.rows) = Len(old.rows)
    /\ \A i \in 1..Len(f.rows) :
          /\ Len(f.rows[i]) = Len(old.rows[i])
          /\ \A j \in 1..Len(f.header) :
                f.header[j] # name => f.rows[i][j] = old.rows[i][j]

\* the timestamp pass of a "next" run has completed
StampedNext == pc \in {"finish", "done"} /\ run_type = "next"
\* the tag pass has just completed
Tagged == pc = "stamp"
\* write_to_csv has just completed
Written == pc = "tag"

\* C1: after update_datetime ran in a "next" run, every row's accessed_at is
\* the one value (clock as read by the pass, microseconds dropped) minus one
\* day, and the row count, the row order, the header and every cell of the
\* other columns, unique_id included, are what they were before the pass.
C1_NextStampsEveryRow ==
    StampedNext =>
        LET stamp == [day |-> clockRead.day - 1, sec |-> clockRead.sec, us |-> 0]
        IN  /\ file.height = prev.height
            /\ file.header = prev.header
            /\ file.rest = prev.rest
            /\ OthersKept(file, prev, "accessed_at")
            /\ \A i \in 1..Len(file.rows) :
                  Cell(file, i, "accessed_at") = PolarsDatetimeText(stamp)

\* a "next" pass over rows whose accessed_at differed, the clock read between
\* two whole seconds
C1_Witness ==
    /\ StampedNext
    /\ clockRead.us # 0
    /\ \E i, k \in 1..Len(prev.rows) :
          Cell(prev, i, "accessed_at") # Cell(prev, k, "accessed_at")
    /\ \E i \in 1..Len(file.rows) : Cell(file, i, "unique_id") # <<>>

\* C2: after add_id the file has the same rows in the same order, the 15
\* original columns unchanged in value and position, and unique_id as one new
\* last column.
C2_TagKeepsOriginalColumns ==
    Tagged =>
        /\ file.height = prev.height
        /\ file.header = Append(prev.header, "unique_id")
        /\ Len(file.rows) = Len(prev.rows)
        /\ \A i \in 1..Len(file.rows) :
              /\ Len(file.rows[i]) = 16
              /\ \A j \in 1..15 : file.rows[i][j] = prev.rows[i][j]

\* C3: write_to_csv, add_id and update_datetime run in this order, one after
\* the other, and a completed run leaves the 15 record fields in their order
\* followed by unique_id as the file's columns, in either run mode.
C3_StepsInOrder ==
    /\ \/ IsPrefix(PassMessages, <<"Written", "Added UUID",
                                   "Updated accessed timestamp">>)
       \/ IsPrefix(PassMessages, <<"Written", "Added UUID",
                                   "No timestamp update needed">>)
    /\ pc = "done" =>
          /\ Len(PassMessages) = 3
          /\ file.header =
                <<"person_name", "user_name", "email", "personal_number",
                  "birth_date", "address", "phone", "mac_address",
                  "ip_address", "iban", "accessed_at", "session_duration",
                  "download_speed", "upload_speed", "consumed_traffic",
                  "unique_id">>

\* a completed run of the first date
C3_Witness ==
    /\ pc = "done"
    /\ run_type = "first"
    /\ file.height = 300372
    /\ Len(file.rows) > 0

\* C4: whatever the file held before, write_to_csv leaves the 15-column
\* header row and exactly N data rows of 15 fields; for N = 0 the file exists
\* and holds the header row only.
C4_WriteLeavesHeaderAndRows ==
    Written =>
        /\ file.exists
        /\ Len(file.header) = 15
        /\ file.header = headers
        /\ file.height = records
        /\ Len(file.rows) = Min(records, MaxRows)
        /\ \A i \in 1..Len(file.rows) : Len(file.rows[i]) = 15
        /\ records = 0 => file.rows = <<>>

\* an empty batch written over the file an earlier run of the day left
C4_Witness ==
    /\ Written
    /\ records = 0
    /\ prev.exists
    /\ prev.height > 0
    /\ file.exists

C6_FirstLeavesFile ==
    (pc \in {"finish", "done"} /\ run_type = "first") =>
        /\ file = prev
        /\ opens = NoOpens
        /\ Logged("No timestamp update needed")
        /\ ~Logged("Updated accessed timestamp")

\* the pass of a "first" run over a tagged file
C6_Witness ==
    /\ pc = "finish"
    /\ run_type = "first"
    /\ ColumnIndex(file.header, "unique_id") = 16
    /\ \E i, k \in 1..Len(file.rows) :
          Cell(file, i, "accessed_at") # Cell(file, k, "accessed_at")

\* C7: the row count and run mode are decided once, from the date read then:
\* 300372 and "first" on 2025-09-22, a count in 0..1101 and "next" on any
\* other date; write_to_csv and update_datetime use that decision.
C7_RunDecision ==
    /\ pc \in {"start", "decide"} => (records = 0 /\ run_type = "unset")
    /\ pc \in {"write", "tag", "stamp", "finish", "done"} =>
          run_type # "unset"
    /\ run_type # "unset" =>
          /\ today = 739516 => (records = 300372 /\ run_type = "first")
          /\ today # 739516 => (records \in 0..1101 /\ run_type = "next")
    /\ \A k \in 1..Len(log) : log[k].msg = "Written" => log[k].arg = records
    /\ (pc \notin {"start", "decide", "write"} /\ failed = "none") =>
          file.height = records
    /\ Logged("Updated accessed timestamp") => run_type = "next"
    /\ Logged("No timestamp update needed") => run_type = "first"

\* a run that began on the eve of the first date and decided after midnight
C7_Witness ==
    /\ pc = "done"
    /\ started.day = 739515
    /\ today = 739516
    /\ records = 300372
    /\ run_type = "first"

\* C8 as claimed: after a failure that follows a completed pass the file is
\* what the last completed pass left.
C8_AbortKeepsLastPass ==
    (pc = "aborted" /\ Logged("Written")) => file = prev

\* C8, amended: a step that fails ends the run: no later step runs, none is
\* retried, and the file is what the last completed pass left unless the
\* failure interrupted a write to the file, which then holds what the write
\* had put there; a run without failure completes write, tag and timestamp.
C8_AbortEndsRun ==
    /\ pc = "aborted" <=> failed # "none"
    /\ pc = "aborted" =>
          /\ ~Logged("Finished")
          /\ failed \in {"makedirs", "open", "read", "write"}
          /\ failed = "makedirs" => ~Logged("Created synthetic data")
          /\ failed \in {"makedirs", "open"} => ~Logged("Written")
          /\ ~Logged("Written") => ~Logged("Added UUID")
          /\ ~Logged("Added UUID") =>
                (~Logged("Updated accessed timestamp")
                 /\ ~Logged("No timestamp update needed"))
          /\ failed # "write" => file = prev
          /\ failed = "write" => (file.exists /\ opens.write = 1)
    /\ \A m \in {"Started", "Created synthetic data", "Written", "Added UUID",
                 "Updated accessed timestamp", "No timestamp update needed",
                 "Finished"} : TimesLogged(m) <= 1
    /\ pc = "done" =>
          /\ Len(PassMessages) = 3
          /\ Logged("Finished")

\* add_id failed while it was rewriting the file
C8_Witness ==
    /\ pc = "aborted"
    /\ failed = "write"
    /\ Logged("Written")
    /\ ~Logged("Added UUID")
    /\ file # prev
    /\ prev.height > 0

\* C9 as claimed: after the tag pass the unique_id values of any two rows
\* differ.
C9_UniqueIdsDistinct ==
    Tagged =>
        \A i, k \in 1..Len(file.rows) :
            i # k => Cell(file, i, "unique_id") # Cell(file, k, "unique_id")

\* C9, amended: after the tag pass the row count is unchanged and every row
\* has a non-empty unique_id; the values are independent draws of uuid4 and
\* nothing makes two of them differ.
C9_EveryRowTagged ==
    Tagged =>
        /\ file.height = prev.height
        /\ Len(file.rows) = Len(prev.rows)
        /\ ColumnIndex(prev.header, "unique_id") = 0
        /\ ColumnIndex(file.header, "unique_id") = Len(file.header)
        /\ \A i \in 1..Len(file.rows) :
              /\ Len(file.rows[i]) = Len(file.header)
              /\ Cell(file, i, "unique_id") \in Uuids
              /\ Cell(file, i, "unique_id") # <<>>

\* two rows were given the same unique_id
C9_Witness ==
    /\ Tagged
    /\ \E i, k \in 1..Len(file.rows) :
          i # k /\ Cell(file, i, "unique_id") = Cell(file, k, "unique_id")

\* the part of an address before its first "@"
LocalPart(email) ==
    IF \E k \in 1..Len(email) : email[k] = "@"
    THEN SubSeq(email, 1,
                (CHOOSE k \in 1..Len(email) :
                    email[k] = "@" /\ \A h \in 1..(k - 1) : email[h] # "@") - 1)
    ELSE email

\* C10: in every record user_name is person_name without its spaces and in
\* lower case, and email is user_name, "@" and a domain.
C10_UserNameAndEmail ==
    Written =>
        \A i \in 1..Len(file.rows) :
            LET person_name == Cell(file, i, "person_name")
                user_name == Cell(file, i, "user_name")
                email == Cell(file, i, "email")
                NotSpace(c) == c # " "
                letters == SelectSeq(person_name, NotSpace)
            IN  /\ \A k \in 1..Len(user_name) :
                      /\ user_name[k] # " "
                      /\ \A u \in 1..26 : user_name[k] # Uppers[u]
                /\ Len(user_name) = Len(letters)
                /\ \A k \in 1..Len(letters) : user_name[k] = LowerChar(letters[k])
                /\ LocalPart(email) = user_name
                /\ Len(email) > Len(user_name) + 1
                /\ email[Len(user_name) + 1] = "@"

\* a written record whose person_name has a space and a capital letter
C10_Witness ==
    /\ Written
    /\ \E i \in 1..Len(file.rows) :
          LET person_name == Cell(file, i, "person_name")
          IN  /\ \E k \in 1..Len(person_name) : person_name[k] = " "
              /\ \E k \in 1..Len(person_name), u \in 1..26 :
                    person_name[k] = Uppers[u]
              /\ Cell(file, i, "user_name") # person_name

====
